---- MODULE Spec2Model ----
(***************************************************************************)
(* A model of semverer (src/src/semverer/main.py, cli.py): the             *)
(* ASTVersionInspector that scans a package, diffs the public API against  *)
(* the snapshot stored in pyproject.toml and bumps the semantic version.   *)
(*                                                                         *)
(* Python values are modelled as follows.                                  *)
(*   str        a TLA+ string                                              *)
(*   dict       a sequence of <<key, value>> pairs with distinct keys, in  *)
(*              insertion order (Python dicts iterate in insertion order;  *)
(*              == on dicts ignores the order, see DictEq)                 *)
(*   dict value Str(s) or Dict(d): the values a dict holds are tagged with *)
(*              their type t, as a signature is a str (function, field s)  *)
(*              or a dict (class, field d)                                 *)
(*   TOML data  a TLA+ function from table keys to values                  *)
(***************************************************************************)
EXTENDS Integers, Sequences, FiniteSets, TLC

VARIABLES
    disk,             \* the package directory: file name -> source content
    pyproject,        \* pyproject.toml: Absent or its parsed table
    pc,               \* "idle" | "constructed" | "done": the CLI process
    dry_run,          \* self.dry_run
    current_version,  \* self.current_version
    api_signatures,   \* self.api_signatures
    old_api,          \* run(): old_api
    outcome,          \* how run() ended
    new_version,      \* run(): new_version
    changes,          \* run(): changes
    pyproject_before, \* history: pyproject.toml when the inspector was built
    history,          \* history: "unsettled" | "settled" | "rerun"
    call              \* harness of the pure functions: function, input, result

vars == <<disk, pyproject, pc, dry_run, current_version, api_signatures,
          old_api, outcome, new_version, changes, pyproject_before, history,
          call>>

(***************************************************************************)
(* Bounds                                                                  *)
(***************************************************************************)
\* A command starts only while every component of the stored version is at
\* most MaxVer.
MaxVer == 2
\* The largest value of a change counter the version harness draws.
MaxCount == 2
\* The longest module body the extraction harness draws.
MaxBody == 2

(***************************************************************************)
(* Python dicts                                                            *)
(***************************************************************************)
EmptyDict == <<>>

DictKeys(d) == {d[i][1] : i \in DOMAIN d}

DictHas(d, k) == \E i \in DOMAIN d : d[i][1] = k

\* d[k], for a key that is present
DictAt(d, k) == d[CHOOSE i \in DOMAIN d : d[i][1] = k][2]

\* d.get(k, default)
DictGet(d, k, default) == IF DictHas(d, k) THEN DictAt(d, k) ELSE default

\* d[k] = v: an existing key keeps its position, a new key is appended
DictSet(d, k, v) ==
    IF DictHas(d, k)
    THEN [i \in DOMAIN d |-> IF d[i][1] = k THEN <<k, v>> ELSE d[i]]
    ELSE Append(d, <<k, v>>)

Str(s) == [t |-> "str", s |-> s, d |-> <<>>]

Dict(d) == [t |-> "dict", s |-> "", d |-> d]

RECURSIVE PyEq(_, _)
\* == on values: a str never equals a dict; dicts are equal when they have
\* the same keys with equal values, whatever the insertion order
PyEq(x, y) ==
    /\ x.t = y.t
    /\ IF x.t = "str" THEN x.s = y.s
       ELSE /\ DictKeys(x.d) = DictKeys(y.d)
            /\ \A k \in DictKeys(x.d) : PyEq(DictAt(x.d, k), DictAt(y.d, k))

\* a == b on two dicts
DictEq(a, b) == PyEq(Dict(a), Dict(b))

(***************************************************************************)
(* Strings                                                                 *)
(***************************************************************************)
\* s.startswith(p)
StartsWith(s, p) == Len(s) >= Len(p) /\ SubSeq(s, 1, Len(p)) = p

\* s.endswith(p)
EndsWith(s, p) ==
    Len(s) >= Len(p) /\ SubSeq(s, Len(s) - Len(p) + 1, Len(s)) = p

RECURSIVE Join(_, _)
\* sep.join(parts)
Join(parts, sep) ==
    IF parts = <<>> THEN ""
    ELSE IF Len(parts) = 1 THEN parts[1]
    ELSE parts[1] \o sep \o Join(Tail(parts), sep)

Digits == <<"0", "1", "2", "3", "4", "5", "6", "7", "8", "9">>

IsDigit(c) == \E i \in DOMAIN Digits : Digits[i] = c

DigitValue(c) == (CHOOSE i \in DOMAIN Digits : Digits[i] = c) - 1

RECURSIVE IntToStr(_)
\* str(n) for n >= 0
IntToStr(n) ==
    IF n < 10 THEN Digits[n + 1]
    ELSE IntToStr(n \div 10) \o Digits[(n % 10) + 1]

RECURSIVE StrToInt(_)
\* int(s) for a non-empty string of digits
StrToInt(s) ==
    IF Len(s) = 1 THEN DigitValue(s)
    ELSE 10 * StrToInt(SubSeq(s, 1, Len(s) - 1))
           + DigitValue(SubSeq(s, Len(s), Len(s)))

\* a numeric identifier of a semantic version: 0, or digits without a
\* leading zero
IsNumeric(s) ==
    /\ Len(s) >= 1
    /\ \A i \in 1..Len(s) : IsDigit(SubSeq(s, i, i))
    /\ (Len(s) > 1 => SubSeq(s, 1, 1) # "0")

\* the positions of the dots of s
DotsOf(s) == {i \in 1..Len(s) : SubSeq(s, i, i) = "."}

(***************************************************************************)
(* semver.Version: parse, bump, str.  Only the three-component form        *)
(* MAJOR.MINOR.PATCH is modelled; every other string is rejected.          *)
(***************************************************************************)
NoVersion == [ok |-> FALSE, major |-> 0, minor |-> 0, patch |-> 0]

Version(x, y, z) == [ok |-> TRUE, major |-> x, minor |-> y, patch |-> z]

\* semver.Version.parse(s): NoVersion stands for the ValueError it raises
VersionParse(s) ==
    LET dots == DotsOf(s) IN
    IF Cardinality(dots) # 2 THEN NoVersion
    ELSE
        LET d1 == CHOOSE i \in dots : \A j \in dots : i <= j
            d2 == CHOOSE i \in dots : \A j \in dots : j <= i
            a == SubSeq(s, 1, d1 - 1)
            b == SubSeq(s, d1 + 1, d2 - 1)
            c == SubSeq(s, d2 + 1, Len(s))
        IN  IF IsNumeric(a) /\ IsNumeric(b) /\ IsNumeric(c)
            THEN Version(StrToInt(a), StrToInt(b), StrToInt(c))
            ELSE NoVersion

bump_major(v) == Version(v.major + 1, 0, 0)

bump_minor(v) == Version(v.major, v.minor + 1, 0)

bump_patch(v) == Version(v.major, v.minor, v.patch + 1)

\* str(version)
VersionStr(v) ==
    IntToStr(v.major) \o "." \o IntToStr(v.minor) \o "." \o IntToStr(v.patch)

Raise(e) == [err |-> e, v |-> ""]

Return(s) == [err |-> "", v |-> s]

\* increment_version, were the minor counter tested before the major one
increment_version_minor_first(cur, major, minor, patch) ==
    LET version == VersionParse(cur) IN
    IF ~version.ok THEN Raise("ValueError")
    ELSE IF minor # 0 THEN Return(VersionStr(bump_minor(version)))
    ELSE IF major # 0 THEN Return(VersionStr(bump_major(version)))
    ELSE IF patch # 0 THEN Return(VersionStr(bump_patch(version)))
    ELSE Return(VersionStr(version))

\* ASTVersionInspector.increment_version, with self.current_version as cur
increment_version(cur, major, minor, patch) ==
    LET version == VersionParse(cur) IN
    IF ~version.ok THEN Raise("ValueError")
    ELSE IF major # 0 THEN Return(VersionStr(bump_major(version)))
    ELSE IF minor # 0 THEN Return(VersionStr(bump_minor(version)))
    ELSE IF patch # 0 THEN Return(VersionStr(bump_patch(version)))
    ELSE Return(VersionStr(version))

(***************************************************************************)
(* The syntax trees ast.parse returns, reduced to the nodes extract_api    *)
(* tells apart: Module, FunctionDef, ClassDef and any other statement      *)
(* (Pass).  args holds the positional parameter names, body the child      *)
(* statements.                                                             *)
(***************************************************************************)
Node(type, name, args, body) ==
    [type |-> type, name |-> name, args |-> args, body |-> body]

Module(body) == Node("Module", "", <<>>, body)

FunctionDef(name, args, body) == Node("FunctionDef", name, args, body)

ClassDef(name, body) == Node("ClassDef", name, <<>>, body)

Pass == Node("Pass", "", <<>>, <<>>)

RECURSIVE Walk(_)
\* ast.walk: breadth first, from a queue of nodes still to visit
Walk(todo) ==
    IF todo = <<>> THEN <<>>
    ELSE <<Head(todo)>> \o Walk(Tail(todo) \o Head(todo).body)

\* ASTVersionInspector.get_function_signature
get_function_signature(node) ==
    "def " \o node.name \o "(" \o Join(node.args, ", ") \o ")"

RECURSIVE ClassMethods(_, _)
\* the loop of get_class_signature over node.body
ClassMethods(body, methods) ==
    IF body = <<>> THEN methods
    ELSE ClassMethods(Tail(body),
            IF Head(body).type = "FunctionDef"
            THEN DictSet(methods, Head(body).name,
                         Str(get_function_signature(Head(body))))
            ELSE methods)

\* ASTVersionInspector.get_class_signature
get_class_signature(node) == ClassMethods(node.body, EmptyDict)

RECURSIVE ApiElements(_, _)
\* the loop of extract_api over the walked nodes
ApiElements(nodes, api_elements) ==
    IF nodes = <<>> THEN api_elements
    ELSE
        LET node == Head(nodes) IN
        ApiElements(Tail(nodes),
            IF node.type = "FunctionDef"
            THEN DictSet(api_elements, node.name,
                         Str(get_function_signature(node)))
            ELSE IF node.type = "ClassDef"
            THEN DictSet(api_elements, node.name,
                         Dict(get_class_signature(node)))
            ELSE api_elements)

\* ASTVersionInspector.extract_api on a parsed tree
extract_api(tree) == ApiElements(Walk(<<tree>>), EmptyDict)

(***************************************************************************)
(* json.dumps / json.loads and base64.  JSON text is modelled as its       *)
(* sequence of tokens: the punctuation { } : , and quoted strings.         *)
(* base64 text is the JSON text behind a "b64" marker; the empty string    *)
(* is the empty sequence.                                                  *)
(***************************************************************************)
Quote(s) == "\"" \o s \o "\""

Unquote(tok) == SubSeq(tok, 2, Len(tok) - 1)

RECURSIVE Dumps(_)
RECURSIVE DumpItems(_)
\* json.dumps(x)
Dumps(x) ==
    IF x.t = "str" THEN <<Quote(x.s)>>
    ELSE <<"{">> \o DumpItems(x.d) \o <<"}">>

\* the "key": value items of a dict, separated by commas
DumpItems(d) ==
    IF d = <<>> THEN <<>>
    ELSE <<Quote(d[1][1]), ":">> \o Dumps(d[1][2])
         \o (IF Len(d) > 1 THEN <<",">> ELSE <<>>) \o DumpItems(Tail(d))

RECURSIVE ParseValue(_)
RECURSIVE ParseItems(_, _)
\* the JSON decoder: the value at the head of toks and the tokens after it
ParseValue(toks) ==
    IF Head(toks) = "{" THEN ParseItems(Tail(toks), EmptyDict)
    ELSE [v |-> Str(Unquote(Head(toks))), rest |-> Tail(toks)]

\* the items of an object up to its closing brace; a repeated key keeps
\* the last value
ParseItems(toks, acc) ==
    IF Head(toks) = "}" THEN [v |-> Dict(acc), rest |-> Tail(toks)]
    ELSE IF Head(toks) = "," THEN ParseItems(Tail(toks), acc)
    ELSE
        LET val == ParseValue(SubSeq(toks, 3, Len(toks))) IN
        ParseItems(val.rest, DictSet(acc, Unquote(toks[1]), val.v))

\* json.loads(text)
Loads(text) == ParseValue(text).v

EmptyStr == <<>>

b64encode(text) == <<"b64">> \o text

b64decode(text) == Tail(text)

(***************************************************************************)
(* pyproject.toml: toml.load / toml.dump move the whole table              *)
(***************************************************************************)
EmptyTable == <<>>

NoConfig == [exists |-> FALSE, data |-> EmptyTable]

Config(data) == [exists |-> TRUE, data |-> data]

\* table.get(k, default)
TableGet(table, k, default) == IF k \in DOMAIN table THEN table[k] ELSE default

\* table[k] = v
TableSet(table, k, v) == (k :> v) @@ table

\* ASTVersionInspector.load_version
load_version(file) ==
    IF file.exists
    THEN TableGet(TableGet(file.data, "project", EmptyTable),
                  "version", "0.1.0")
    ELSE "0.1.0"

\* ASTVersionInspector.load_api_signatures
load_api_signatures(file) ==
    IF file.exists
    THEN
        LET encoded_signatures ==
                TableGet(TableGet(TableGet(file.data, "tool", EmptyTable),
                                  "ast_inspector", EmptyTable),
                         "api_signatures", EmptyStr)
        IN  IF encoded_signatures # EmptyStr
            THEN Loads(b64decode(encoded_signatures)).d
            ELSE EmptyDict
    ELSE EmptyDict

\* save_version past its dry-run return: the file it leaves
WriteConfig(file, signatures, version, change_list) ==
    IF file.exists /\ "project" \in DOMAIN file.data
    THEN
        LET project == TableSet(file.data["project"], "version", version)
            tool == TableSet(TableGet(file.data, "tool", EmptyTable),
                        "ast_inspector",
                        [api_signatures |->
                             b64encode(Dumps(Dict(signatures))),
                         last_changes |-> change_list])
        IN  Config(TableSet(TableSet(file.data, "project", project),
                            "tool", tool))
    ELSE file

\* save_version without its dry-run return
save_version_always(file, dry, signatures, version, change_list) ==
    WriteConfig(file, signatures, version, change_list)

\* ASTVersionInspector.save_version: the file it leaves
save_version(file, dry, signatures, version, change_list) ==
    IF dry THEN file
    ELSE WriteConfig(file, signatures, version, change_list)

(***************************************************************************)
(* The package directory                                                   *)
(***************************************************************************)
\* self.package_path, absolute; pyproject.toml lies in its parent directory
PackagePath == "/proj/pkg"

\* os.path.join(root, file)
PathJoin(root, file) == root \o "/" \o file

\* the file names of the package, in the order os.walk lists them
DirOrder == <<"__init__.py", "a.py", "b.py", "notes.txt">>

Files == {DirOrder[i] : i \in DOMAIN DirOrder}

NoFile == [exists |-> FALSE, ok |-> FALSE, tree |-> Module(<<>>)]

\* a file whose text parses to tree
Source(tree) == [exists |-> TRUE, ok |-> TRUE, tree |-> tree]

\* a file whose text ast.parse rejects with a SyntaxError
BadSource == [exists |-> TRUE, ok |-> FALSE, tree |-> Module(<<>>)]

\* def foo(a): ...
SrcFoo1 == Source(Module(<<FunctionDef("foo", <<"a">>, <<Pass>>)>>))

\* def foo(a, b): ...  /  def bar(): ...
SrcFoo2 ==
    Source(Module(<<FunctionDef("foo", <<"a", "b">>, <<Pass>>),
                    FunctionDef("bar", <<>>, <<Pass>>)>>))

\* class K:  def m(self): ...
SrcK == Source(Module(<<ClassDef("K", <<FunctionDef("m", <<"self">>, <<Pass>>)>>)>>))

\* a module without declarations
SrcEmpty == Source(Module(<<Pass>>))

\* the texts a source file of the package is edited to
Sources == {SrcEmpty, SrcFoo1, SrcFoo2, SrcK, BadSource}

\* the files the commands never select are there from the start and stay
InitDisk ==
    [f \in Files |->
        IF f = "__init__.py"
        THEN Source(Module(<<FunctionDef("main", <<>>, <<Pass>>)>>))
        ELSE IF f = "notes.txt" THEN BadSource
        ELSE NoFile]

\* the files the environment edits
Editable == {"a.py", "b.py"}

RECURSIVE ScanFilesSkipBad(_, _, _)
\* the loop of scan_package, were a file that does not parse skipped
ScanFilesSkipBad(files, dir, signatures) ==
    IF files = <<>> THEN [err |-> "", v |-> signatures]
    ELSE
        LET file == Head(files) IN
        IF EndsWith(file, ".py") /\ ~StartsWith(file, "_") /\ dir[file].ok
        THEN ScanFilesSkipBad(Tail(files), dir,
                DictSet(signatures, PathJoin(PackagePath, file),
                        Dict(extract_api(dir[file].tree))))
        ELSE ScanFilesSkipBad(Tail(files), dir, signatures)

RECURSIVE ScanFiles(_, _, _)
\* the loop of scan_package over the files os.walk lists; a file that does
\* not parse raises out of the loop, leaving the entries made so far
ScanFiles(files, dir, signatures) ==
    IF files = <<>> THEN [err |-> "", v |-> signatures]
    ELSE
        LET file == Head(files) IN
        IF EndsWith(file, ".py") /\ ~StartsWith(file, "_")
        THEN
            IF ~dir[file].ok THEN [err |-> "SyntaxError", v |-> signatures]
            ELSE ScanFiles(Tail(files), dir,
                    DictSet(signatures, PathJoin(PackagePath, file),
                            Dict(extract_api(dir[file].tree))))
        ELSE ScanFiles(Tail(files), dir, signatures)

\* ASTVersionInspector.scan_package: self.api_signatures is updated in place
scan_package(dir, signatures) ==
    ScanFiles(SelectSeq(DirOrder, LAMBDA f : dir[f].exists), dir, signatures)

(***************************************************************************)
(* detect_changes                                                          *)
(***************************************************************************)
NoTally == [major |-> 0, minor |-> 0, patch |-> 0, changes |-> <<>>]

RECURSIVE NewKeysChangedAsMinor(_, _, _, _, _)
\* the loop over new_api, were a changed signature counted as an addition
NewKeysChangedAsMinor(keys, file, new_api, old_api_, acc) ==
    IF keys = <<>> THEN acc
    ELSE
        LET key == keys[1][1] IN
        NewKeysChangedAsMinor(Tail(keys), file, new_api, old_api_,
            IF ~DictHas(old_api_, key)
            THEN [acc EXCEPT !.minor = @ + 1,
                             !.changes = Append(@, "Added " \o key \o " in " \o file)]
            ELSE IF ~PyEq(DictAt(new_api, key), DictAt(old_api_, key))
            THEN [acc EXCEPT !.minor = @ + 1,
                             !.changes = Append(@, "Changed signature of "
                                                   \o key \o " in " \o file \o ":\n")]
            ELSE acc)

RECURSIVE NewKeys(_, _, _, _, _)
\* for key in new_api: keys is what is left of new_api to visit
NewKeys(keys, file, new_api, old_api_, acc) ==
    IF keys = <<>> THEN acc
    ELSE
        LET key == keys[1][1] IN
        NewKeys(Tail(keys), file, new_api, old_api_,
            IF ~DictHas(old_api_, key)
            THEN [acc EXCEPT !.minor = @ + 1,
                             !.changes = Append(@, "Added " \o key \o " in " \o file)]
            ELSE IF ~PyEq(DictAt(new_api, key), DictAt(old_api_, key))
            THEN [acc EXCEPT !.major = @ + 1,
                             !.changes = Append(@, "Changed signature of "
                                                   \o key \o " in " \o file \o ":\n")]
            ELSE acc)

RECURSIVE OldKeys(_, _, _, _)
\* for key in old_api: keys is what is left of old_api to visit
OldKeys(keys, file, new_api, acc) ==
    IF keys = <<>> THEN acc
    ELSE
        LET key == keys[1][1] IN
        OldKeys(Tail(keys), file, new_api,
            IF ~DictHas(new_api, key)
            THEN [acc EXCEPT !.major = @ + 1,
                             !.changes = Append(@, "Removed " \o key \o " from " \o file)]
            ELSE acc)

RECURSIVE TallyFiles(_, _, _)
\* for file, new_api in new_signatures.items()
TallyFiles(items, old_signatures, acc) ==
    IF items = <<>> THEN acc
    ELSE
        LET file == items[1][1]
            new_api == items[1][2].d
            old_api_ == DictGet(old_signatures, file, Dict(EmptyDict)).d
        IN  TallyFiles(Tail(items), old_signatures,
                OldKeys(old_api_, file, new_api,
                    NewKeys(new_api, file, new_api, old_api_, acc)))

\* the counters and the change list detect_changes has when its loop ends
Tally(old_signatures, new_signatures) ==
    TallyFiles(new_signatures, old_signatures, NoTally)

\* ASTVersionInspector.detect_changes, with self.current_version as cur:
\* the new version (or the error of increment_version) and the changes
detect_changes(cur, old_signatures, new_signatures) ==
    LET t == Tally(old_signatures, new_signatures)
        r == increment_version(cur, t.major, t.minor, t.patch)
    IN  [err |-> r.err, v |-> r.v, changes |-> t.changes]

(***************************************************************************)
(* run()                                                                   *)
(***************************************************************************)
RunResult(how, signatures, version, change_list, file) ==
    [outcome |-> how, api_signatures |-> signatures, new_version |-> version,
     changes |-> change_list, pyproject |-> file]

\* ASTVersionInspector.run on an inspector with the fields dry, cur and
\* loaded (self.api_signatures as __init__ left it): how it ends, the
\* fields it leaves and the pyproject.toml it leaves
run(dir, file, dry, cur, loaded) ==
    LET scan == scan_package(dir, loaded) IN
    IF scan.err # ""
    THEN RunResult(scan.err, scan.v, "", <<>>, file)
    ELSE IF ~DictEq(loaded, scan.v)
    THEN
        LET d == detect_changes(cur, loaded, scan.v) IN
        IF d.err # ""
        THEN RunResult(d.err, scan.v, "", <<>>, file)
        ELSE RunResult("changed", scan.v, d.v, d.changes,
                       save_version(file, dry, scan.v, d.v, d.changes))
    ELSE RunResult("no_changes", scan.v, "", <<>>, file)

(***************************************************************************)
(* The system: the package directory, pyproject.toml and one CLI process   *)
(* at a time                                                               *)
(***************************************************************************)
NoCall == [fn |-> "none"]

\* the pyproject.toml files a behaviour starts from
InitConfigs ==
    {NoConfig,
     Config(EmptyTable),
     Config([project |-> [name |-> "pkg"]]),
     Config([project |-> [name |-> "pkg", version |-> "1.0.0"],
             tool |-> [black |-> [target |-> "py311"]]]),
     Config([project |-> [name |-> "pkg", version |-> "1.0"]])}

NoInspector ==
    /\ dry_run = FALSE
    /\ current_version = ""
    /\ api_signatures = EmptyDict
    /\ old_api = EmptyDict
    /\ outcome = ""
    /\ new_version = ""
    /\ changes = <<>>

Init ==
    /\ disk = InitDisk
    /\ pyproject \in InitConfigs
    /\ pc = "idle"
    /\ NoInspector
    /\ pyproject_before = pyproject
    /\ history = "unsettled"
    /\ call = NoCall

\* the version cap of the model: no command starts past it
WithinCap(file) ==
    LET v == VersionParse(load_version(file)) IN
    v.ok => v.major <= MaxVer /\ v.minor <= MaxVer /\ v.patch <= MaxVer

\* cli.update (dry = FALSE) and cli.check (dry = TRUE), first statement:
\* ASTVersionInspector.__init__
Construct(dry) ==
    /\ pc = "idle"
    /\ WithinCap(pyproject)
    /\ pc' = "constructed"
    /\ current_version' = load_version(pyproject)
    /\ api_signatures' = load_api_signatures(pyproject)
    /\ dry_run' = dry
    /\ pyproject_before' = pyproject
    /\ UNCHANGED <<disk, pyproject, old_api, outcome, new_version, changes,
                   history, call>>

\* cli.update and cli.check, second statement: inspector.run()
Run ==
    /\ pc = "constructed"
    /\ LET r == run(disk, pyproject, dry_run, current_version, api_signatures)
       IN  /\ pc' = "done"
           /\ old_api' = api_signatures
           /\ api_signatures' = r.api_signatures
           /\ outcome' = r.outcome
           /\ new_version' = r.new_version
           /\ changes' = r.changes
           /\ pyproject' = r.pyproject
           /\ history' =
                IF history \in {"settled", "rerun"} THEN "rerun"
                ELSE IF ~dry_run /\ r.outcome \in {"changed", "no_changes"}
                THEN "settled"
                ELSE "unsettled"
    /\ UNCHANGED <<disk, dry_run, current_version, pyproject_before, call>>

\* the process ends
Exit ==
    /\ pc = "done"
    /\ pc' = "idle"
    /\ dry_run' = FALSE
    /\ current_version' = ""
    /\ api_signatures' = EmptyDict
    /\ old_api' = EmptyDict
    /\ outcome' = ""
    /\ new_version' = ""
    /\ changes' = <<>>
    /\ pyproject_before' = pyproject
    /\ UNCHANGED <<disk, pyproject, history, call>>

\* the developer writes a source file between two commands
WriteFile(f, src) ==
    /\ pc = "idle"
    /\ disk[f] # src
    /\ disk' = [disk EXCEPT ![f] = src]
    /\ history' = "unsettled"
    /\ UNCHANGED <<pyproject, pc, dry_run, current_version, api_signatures,
                   old_api, outcome, new_version, changes, pyproject_before,
                   call>>

\* the developer deletes a source file between two commands
DeleteFile(f) ==
    /\ pc = "idle"
    /\ disk[f].exists
    /\ disk' = [disk EXCEPT ![f] = NoFile]
    /\ history' = "unsettled"
    /\ UNCHANGED <<pyproject, pc, dry_run, current_version, api_signatures,
                   old_api, outcome, new_version, changes, pyproject_before,
                   call>>

Next ==
    \/ \E dry \in BOOLEAN : Construct(dry)
    \/ Run
    \/ Exit
    \/ \E f \in Editable, src \in Sources : WriteFile(f, src)
    \/ \E f \in Editable : DeleteFile(f)

Spec == Init /\ [][Next]_vars

(***************************************************************************)
(* The pure functions, each applied to inputs drawn from a bounded set     *)
(***************************************************************************)
sysvars == <<disk, pyproject, pc, dry_run, current_version, api_signatures,
             old_api, outcome, new_version, changes, pyproject_before,
             history>>

\* no command runs
Idle ==
    /\ disk = InitDisk
    /\ pyproject = NoConfig
    /\ pc = "idle"
    /\ NoInspector
    /\ pyproject_before = NoConfig
    /\ history = "unsettled"

\* the sequences over S of length at most n
RECURSIVE SeqsUpTo(_, _)
SeqsUpTo(S, n) ==
    IF n = 0 THEN {<<>>}
    ELSE LET shorter == SeqsUpTo(S, n - 1) IN
         shorter \cup {Append(q, x) : q \in shorter, x \in S}

\* statements without a body of their own
LeafNodes ==
    {Pass, ClassDef("K", <<>>)}
    \cup {FunctionDef(n, a, <<>>) : n \in {"foo", "_bar"}, a \in {<<>>, <<"a">>}}

\* top-level statements: a leaf, or a function or class holding one
TopNodes ==
    LeafNodes
    \cup {FunctionDef("foo", <<"a">>, <<l>>) : l \in LeafNodes \ {Pass}}
    \cup {ClassDef("K", <<l>>) : l \in LeafNodes \ {Pass}}

Trees == {Module(b) : b \in SeqsUpTo(TopNodes, MaxBody)}

ExtractInit ==
    /\ Idle
    /\ call \in {[fn |-> "extract_api", tree |-> t, done |-> FALSE,
                  ret |-> EmptyDict] : t \in Trees}

ApplyExtract ==
    /\ call.fn = "extract_api"
    /\ ~call.done
    /\ call' = [call EXCEPT !.done = TRUE, !.ret = extract_api(call.tree)]
    /\ UNCHANGED sysvars

ExtractNext == ApplyExtract

SpecExtract == ExtractInit /\ [][ExtractNext]_vars

\* the signatures the diff harness gives a declaration
FooSigs == {Str("def foo(a)"), Str("def foo(a, b)")}

BarSigs ==
    {Str("def bar()"),
     Dict(<<<<"m", Str("def m(self)")>>, <<"n", Str("def n(self)")>>>>),
     Dict(<<<<"n", Str("def n(self)")>>, <<"m", Str("def m(self)")>>>>)}

\* FileSignatureSets over the names foo and bar
ApiSets ==
    {EmptyDict}
    \cup {<<<<"foo", x>>>> : x \in FooSigs}
    \cup {<<<<"bar", y>>>> : y \in BarSigs}
    \cup {<<<<"foo", x>>, <<"bar", y>>>> : x \in FooSigs, y \in BarSigs}

\* snapshots over a.py and b.py
Snapshots ==
    LET a == PathJoin(PackagePath, "a.py")
        b == PathJoin(PackagePath, "b.py")
        small == {EmptyDict, <<<<"foo", Str("def foo(a)")>>>>}
    IN  {EmptyDict}
        \cup {<<<<a, Dict(x)>>>> : x \in ApiSets}
        \cup {<<<<b, Dict(y)>>>> : y \in small}
        \cup {<<<<a, Dict(x)>>, <<b, Dict(y)>>>> : x \in ApiSets, y \in small}

DiffInit ==
    /\ Idle
    /\ call \in {[fn |-> "detect_changes", cur |-> "1.4.2", old |-> o,
                  new |-> n, done |-> FALSE, tally |-> NoTally,
                  ret |-> [err |-> "", v |-> "", changes |-> <<>>]] :
                 o \in Snapshots, n \in Snapshots}

ApplyDetect ==
    /\ call.fn = "detect_changes"
    /\ ~call.done
    /\ call' = [call EXCEPT !.done = TRUE,
                            !.tally = Tally(call.old, call.new),
                            !.ret = detect_changes(call.cur, call.old, call.new)]
    /\ UNCHANGED sysvars

DiffNext == ApplyDetect

SpecDiff == DiffInit /\ [][DiffNext]_vars

\* the version components the version harness draws: small ones, and the
\* step from one digit to two
VerParts == 0..MaxVer \cup {9, 10}

BumpInit ==
    /\ Idle
    /\ call \in {[fn |-> "increment_version", x |-> x, y |-> y, z |-> z,
                  cur |-> VersionStr(Version(x, y, z)),
                  major |-> ma, minor |-> mi, patch |-> pa,
                  done |-> FALSE, ret |-> Return("")] :
                 x \in VerParts, y \in VerParts, z \in VerParts,
                 ma \in 0..MaxCount, mi \in 0..MaxCount, pa \in 0..MaxCount}

ApplyIncrement ==
    /\ call.fn = "increment_version"
    /\ ~call.done
    /\ call' = [call EXCEPT !.done = TRUE,
                            !.ret = increment_version(call.cur, call.major,
                                                      call.minor, call.patch)]
    /\ UNCHANGED sysvars

BumpNext == ApplyIncrement

SpecBump == BumpInit /\ [][BumpNext]_vars

(***************************************************************************)
(* Properties                                                              *)
(***************************************************************************)
\* the snapshot key of a file of the package
PathOf(f) == PathJoin(PackagePath, f)

\* the files of the package whose name ends with .py and does not start
\* with an underscore
Eligible == {"a.py", "b.py"}

\* tool.ast_inspector of a pyproject.toml, an empty table when it has none
StoredInspector(file) ==
    TableGet(TableGet(file.data, "tool", EmptyTable), "ast_inspector", EmptyTable)

\* a pyproject.toml save_version writes to
Writable(file) == file.exists /\ "project" \in DOMAIN file.data

\* C1: a dry run never alters persisted state: from the construction of an
\* inspector with dry_run = True to the end of its run(), pyproject.toml
\* (project.version, tool.ast_inspector.api_signatures and last_changes
\* with it) is what it was before, whether or not changes were detected.
C1_DryRunLeavesStore ==
    (pc # "idle" /\ dry_run) => pyproject = pyproject_before

\* a dry run that detected changes over a pyproject.toml a save would write
C1_Witness ==
    /\ pc = "done"
    /\ dry_run
    /\ outcome = "changed"
    /\ changes # <<>>
    /\ new_version # current_version
    /\ Writable(pyproject)

\* C2: idempotence: a run that follows a completed non-dry run, with no
\* source file changed in between, takes the "no changes" branch, whatever
\* pyproject.toml the first run started from.
C2_SecondRunNoChanges ==
    (pc = "done" /\ history = "rerun") => outcome = "no_changes"

\* C3: persistence as a unit: after a non-dry run that found the scanned
\* snapshot different from the loaded one and completed, pyproject.toml
\* holds the new version, the new snapshot and the change list of that
\* run, whatever pyproject.toml the run started from.
C3_PersistedAsUnit ==
    (pc = "done" /\ ~dry_run /\ outcome = "changed") =>
        /\ pyproject.exists
        /\ load_version(pyproject) = new_version
        /\ DictEq(load_api_signatures(pyproject), api_signatures)
        /\ "last_changes" \in DOMAIN StoredInspector(pyproject)
        /\ StoredInspector(pyproject).last_changes = changes

\* a file of the loaded snapshot, with declarations, that the scan no
\* longer finds
DeletedWithDecls(f) ==
    /\ ~disk[f].exists
    /\ DictHas(old_api, PathOf(f))
    /\ DictAt(old_api, PathOf(f)).d # <<>>

\* C5: every removal is counted, whole-file deletions included: a run over
\* a loaded snapshot with a file, holding declarations, that no longer
\* exists reports Removed for each of them and bumps the major version.
C5_DeletedFileRemoved ==
    (pc = "done" /\ outcome # "SyntaxError" /\ VersionParse(current_version).ok) =>
        \A f \in Eligible :
            DeletedWithDecls(f) =>
                /\ outcome = "changed"
                /\ \A k \in DictKeys(DictAt(old_api, PathOf(f)).d) :
                       \E i \in DOMAIN changes :
                           changes[i] = "Removed " \o k \o " from " \o PathOf(f)
                /\ VersionParse(new_version)
                       = bump_major(VersionParse(current_version))

\* C7: no stale file entries: after the scan of a run the keys of the
\* snapshot, and of the snapshot the run persists, are exactly the eligible
\* source files on disk at that scan.
C7_NoStaleFiles ==
    (pc = "done" /\ outcome # "SyntaxError") =>
        LET found == {PathOf(f) : f \in {g \in Eligible : disk[g].exists}} IN
        /\ DictKeys(api_signatures) = found
        /\ (pyproject # pyproject_before
               => DictKeys(load_api_signatures(pyproject)) = found)

\* some selected source file does not parse
ParseFails == \E f \in Eligible : disk[f].exists /\ ~disk[f].ok

\* C9: a parse failure aborts the run with nothing persisted: a non-dry
\* run over a package with a selected file that does not parse ends with
\* the SyntaxError, computes no version and no changes, and leaves
\* pyproject.toml what it was before the run.
C9_ParseFailureAborts ==
    (pc = "done" /\ ~dry_run /\ ParseFails) =>
        /\ outcome = "SyntaxError"
        /\ new_version = ""
        /\ changes = <<>>
        /\ pyproject = pyproject_before

\* a.py was scanned and changed the snapshot in memory, then b.py failed,
\* over a pyproject.toml a save would write
C9_Witness ==
    /\ pc = "done"
    /\ ~dry_run
    /\ disk["a.py"].ok
    /\ disk["b.py"].exists
    /\ ~disk["b.py"].ok
    /\ ~DictEq(api_signatures, old_api)
    /\ Writable(pyproject)

\* the <<file, name>> pairs of the declarations of a snapshot
DeclPairs(snap) ==
    UNION {{<<f, k>> : k \in DictKeys(DictAt(snap, f).d)} : f \in DictKeys(snap)}

\* the signature a snapshot holds for a declaration
SigOf(snap, p) == DictAt(DictAt(snap, p[1]).d, p[2])

\* how many records of a change list are rec
Count(change_list, rec) ==
    Cardinality({i \in DOMAIN change_list : change_list[i] = rec})

\* C4: diff classification: over the files present in new, detect_changes
\* emits exactly one Added record and one minor count per declaration of
\* new absent from old, one Changed record and one major count per
\* declaration in both with unequal signatures, one Removed record and one
\* major count per declaration of old absent from new, and nothing else.
C4_DiffClassification ==
    call.done =>
        LET inNew == DeclPairs(call.new)
            inOld == DeclPairs(call.old)
            added == inNew \ inOld
            changed == {p \in inNew \cap inOld :
                            ~PyEq(SigOf(call.new, p), SigOf(call.old, p))}
            removed == {p \in inOld \ inNew : DictHas(call.new, p[1])}
            recs == call.ret.changes
        IN  /\ \A p \in added :
                   Count(recs, "Added " \o p[2] \o " in " \o p[1]) = 1
            /\ \A p \in changed :
                   Count(recs, "Changed signature of " \o p[2] \o " in "
                               \o p[1] \o ":\n") = 1
            /\ \A p \in removed :
                   Count(recs, "Removed " \o p[2] \o " from " \o p[1]) = 1
            /\ Len(recs) = Cardinality(added) + Cardinality(changed)
                             + Cardinality(removed)
            /\ call.tally.changes = recs
            /\ call.tally.minor = Cardinality(added)
            /\ call.tally.major = Cardinality(changed) + Cardinality(removed)
            /\ call.tally.patch = 0

\* a rename in a.py, foo to bar: one Added and one Removed
C4_Witness ==
    /\ call.done
    /\ call.old = <<<<PathOf("a.py"), Dict(<<<<"foo", Str("def foo(a)")>>>>)>>>>
    /\ call.new = <<<<PathOf("a.py"), Dict(<<<<"bar", Str("def bar()")>>>>)>>>>
    /\ call.ret.changes = <<"Added bar in /proj/pkg/a.py",
                            "Removed foo from /proj/pkg/a.py">>
    /\ call.tally.major = 1
    /\ call.tally.minor = 1

\* C6: bump precedence: from X.Y.Z, increment_version returns (X+1).0.0
\* when major > 0, else X.(Y+1).0 when minor > 0, else X.Y.(Z+1) when
\* patch > 0, else X.Y.Z; the sizes of the counters do not matter.
C6_BumpPrecedence ==
    call.done =>
        call.ret = Return(VersionStr(
            IF call.major > 0 THEN Version(call.x + 1, 0, 0)
            ELSE IF call.minor > 0 THEN Version(call.x, call.y + 1, 0)
            ELSE IF call.patch > 0 THEN Version(call.x, call.y, call.z + 1)
            ELSE Version(call.x, call.y, call.z)))

\* 9.9.9 with two breaking changes and one addition becomes 10.0.0
C6_Witness ==
    /\ call.done
    /\ call.cur = "9.9.9"
    /\ call.major = 2
    /\ call.minor = 1
    /\ call.ret = Return("10.0.0")

\* C8: private-name exclusion: no key of the FileSignatureSet extract_api
\* returns begins with an underscore.
C8_NoPrivateNames ==
    call.done => \A k \in DictKeys(call.ret) : ~StartsWith(k, "_")

\* the positions of the top-level function and class declarations of a tree
TopDecls(tree) ==
    {i \in DOMAIN tree.body : tree.body[i].type \in {"FunctionDef", "ClassDef"}}

\* the signature of a top-level declaration
TopSignature(node) ==
    IF node.type = "FunctionDef" THEN Str(get_function_signature(node))
    ELSE Dict(get_class_signature(node))

\* C10: extraction depth: the keys of the FileSignatureSet extract_api
\* returns are the names of the top-level functions and classes only, each
\* with the signature of the last top-level declaration of its name; no
\* nested declaration becomes a key or replaces a top-level one.
C10_TopLevelOnly ==
    call.done =>
        LET body == call.tree.body
            top == TopDecls(call.tree)
        IN  /\ DictKeys(call.ret) = {body[i].name : i \in top}
            /\ \A i \in top :
                   (\A j \in top : j > i => body[j].name # body[i].name)
                       => PyEq(DictGet(call.ret, body[i].name, Str("")),
                               TopSignature(body[i]))

====
